---- MODULE Spec2Model ----
(***************************************************************************)
(* The gnuplot session controller of gnuplot.cpp: one GnuPlot object, the  *)
(* heap-allocated gnuplot_ctrl structures it points to, the pipes to the   *)
(* gnuplot subprocesses, and the temporary data files it stages.           *)
(***************************************************************************)
EXTENDS Integers, Sequences, FiniteSets, TLC

(* ------------------------------ bounds -------------------------------- *)

\* Capacity of to_delete[] (GP_MAX_TMP_FILES of gnuplot.h), scaled down.
GP_MAX_TMP_FILES == 3
\* Number of gnuplot_ctrl structures malloc can hand out.
MaxSessions == 2
\* Number of distinct names mkstemp can generate.
MaxNames == 3
\* Cap on nplots (an int counter in the code).
MaxPlots == 3
\* Commands waiting in a pipe beyond which a request is not started.
MaxPipe == 1
\* Descriptors the process may hold open for temporary files.
MaxFds == 1
\* Largest sample count n passed to a plot request.
MaxN == 1
\* Plots and staged files a session may hold when the one-shot helper is
\* called on its object.
MaxBeforeOnce == 0
\* Largest number of bins of a histogram a caller prepares.
MaxBins == 3
\* Largest number of samples (before the terminating 0) a caller prepares.
MaxSamples == 3
\* Largest sample value; the samples are 1..MaxSample.
MaxSample == 5
\* Largest length of the PATH variable.
MaxPath == 3

(* ----------------------------- constants ------------------------------ *)

NULL == 0

\* Contents of malloc'ed memory that was never written.
Uninit == "?uninit"

\* An absent char* argument.
NullStr == "?null"

Handles == 1..MaxSessions
Names == 1..MaxNames

\* The names gnuplot_setstyle accepts.
Styles ==
    {"lines", "points", "linespoints", "impulses", "dots", "steps",
     "histogram", "errorbars", "boxes", "boxerrorbars"}

\* Style names the callers of the model pass in.
StyleInputs == {"histogram", "boxeserrorbars"}

\* Titles the callers pass in.
TitleInputs == {NullStr, "t"}

VARIABLES
    obj,        \* the GnuPlot object: "unborn", "live", "dead", and after
                \* undefined behaviour "crashed" or "undefined"
    plot_ctrl,  \* this->plot_ctrl: NULL or a handle
    heap,       \* heap[h]: the gnuplot_ctrl structure at handle h
    proc,       \* proc[h]: handle->gnucmd, the pipe opened by popen; its queue
                \* holds, for each command the engine has not read yet, the
                \* data file the command names (0 when it names none)
    files,      \* files[name]: -1 when absent, else the lines written
    fds,        \* descriptors of temporary files currently open
    DISPLAY,    \* whether the DISPLAY environment variable is set
    PATH,       \* the PATH environment variable
    fsExec,     \* the paths for which access(path, X_OK) == 0
    static_buf, \* the static buffer of gnuplot_get_program_path, as a string
    data,       \* the arrays a caller has prepared for a histogram
    last,       \* the last operation: its inputs, what it sent, its outcome
    sentSince,  \* plot commands sent since the session was opened or reset
    located,    \* every (name, result) pair the locator has returned so far
    creator     \* creator[name]: the session that created the file, else 0

vars ==
    <<obj, plot_ctrl, heap, proc, files, fds, DISPLAY, PATH, fsExec, static_buf,
      data, last, sentSince, located, creator>>

(* --------------------------- executable locator ----------------------- *)

\* access(buf, X_OK) == 0
access(buf, fs) ==
    buf \in fs

\* for (j=i ; (path[j]) && (path[j]!=':') ; j++);
RECURSIVE SegEnd(_, _)
SegEnd(path, j) ==
    IF j <= Len(path) /\ path[j] # ":" THEN SegEnd(path, j + 1) ELSE j

\* The loop over the segments of PATH; the value is buf when the loop ends.
RECURSIVE ScanPath(_, _, _, _)
ScanPath(path, i, pname, fs) ==
    IF i > Len(path) THEN <<>>
    ELSE LET j == SegEnd(path, i)
             lg == j - i
             buf == (IF lg = 0 THEN <<".">> ELSE SubSeq(path, i, j - 1))
                        \o <<"/", pname>>
         IN  IF access(buf, fs) THEN buf
             ELSE ScanPath(path, IF j <= Len(path) THEN j + 1 ELSE j, pname, fs)

\* while (buf[lg]!='/') { buf[lg]=0 ; lg -- ; }  buf[lg] = 0;
RECURSIVE StripName(_)
StripName(buf) ==
    IF buf[Len(buf)] = "/" THEN SubSeq(buf, 1, Len(buf) - 1)
    ELSE StripName(SubSeq(buf, 1, Len(buf) - 1))

gnuplot_get_program_path_NoCwd(pname, path, fs) ==
    LET buf == IF path.set THEN ScanPath(path.val, 1, pname, fs) ELSE <<>>
    IN  IF buf = <<>> THEN <<>> ELSE StripName(buf)

gnuplot_get_program_path_Stale(pname, path, fs) ==
    IF access(<<".", "/", pname>>, fs) THEN <<".">>
    ELSE LET buf == IF path.set THEN ScanPath(path.val, 1, pname, fs) ELSE <<>>
         IN  IF buf = <<>> THEN static_buf ELSE StripName(buf)

\* The directory returned, or <<>> for NULL.  The pointer returned is the
\* static buffer, which holds the empty string when NULL is returned, so
\* the value is also what the buffer holds after the call.
gnuplot_get_program_path(pname, path, fs) ==
    IF access(<<".", "/", pname>>, fs) THEN <<".">>
    ELSE LET buf == IF path.set THEN ScanPath(path.val, 1, pname, fs) ELSE <<>>
         IN  IF buf = <<>> THEN <<>> ELSE StripName(buf)

(* ------------------------ the session structure ----------------------- *)

NoCell ==
    [mem |-> "unalloc", nplots |-> 0, ntmp |-> 0, to_delete |-> <<>>,
     pstyle |-> Uninit]

NoProc ==
    [state |-> "none", queue |-> <<>>, pcloses |-> 0]

\* The state a member function works on, and what it did.
Cur ==
    [ctrl |-> plot_ctrl, heap |-> heap, proc |-> proc, files |-> files,
     fds |-> fds, out |-> <<>>, res |-> "ok", fault |-> "none",
     mk |-> 0, w |-> 0, bin |-> <<>>, buf |-> static_buf,
     loc |-> <<>>]

\* What dereferencing this->plot_ctrl does to the fault state.
Deref(s) ==
    IF s.fault # "none" THEN s.fault
    ELSE IF s.ctrl = NULL THEN "null_deref"
    ELSE IF s.heap[s.ctrl].mem # "alloc" THEN "use_after_free"
    ELSE "none"

Faulted(s) ==
    [s EXCEPT !.fault = Deref(s)]

(* ----------------------------- gnuplot_init --------------------------- *)

FreeHandles(s) ==
    {h \in Handles : s.heap[h].mem = "unalloc"}

\* What a call of the locator leaves in s: the buffer, and the call made.
Located(s, pname, r) ==
    [s EXCEPT !.buf = r, !.loc = Append(@, [pname |-> pname, res |-> r])]

gnuplot_init_NeedsDisplay(s, h, popenOk) ==
    LET r == gnuplot_get_program_path("gnuplot", PATH, fsExec)
        t == Located(s, "gnuplot", r)
    IN  IF ~DISPLAY \/ r = <<>>
        THEN [t EXCEPT !.ctrl = NULL, !.res = "not_found"]
        ELSE IF ~popenOk
        THEN [t EXCEPT !.ctrl = NULL, !.res = "spawn_failed"]
        ELSE [t EXCEPT !.ctrl = h,
                       !.heap[h] = [NoCell EXCEPT !.mem = "alloc"],
                       !.proc[h] = [NoProc EXCEPT !.state = "open"],
                       !.res = "opened"]

\* The state after the call; s.ctrl is the handle returned, NULL on failure.
\* h is the block malloc hands out, popenOk whether popen succeeds.  An unset
\* DISPLAY only prints a warning.  A block freed after a failed popen is
\* never referenced and stays unallocated.
gnuplot_init(s, h, popenOk) ==
    LET r == gnuplot_get_program_path("gnuplot", PATH, fsExec)
        t == Located(s, "gnuplot", r)
    IN  IF r = <<>>
        THEN [t EXCEPT !.ctrl = NULL, !.res = "not_found"]
        ELSE IF ~popenOk
        THEN [t EXCEPT !.ctrl = NULL, !.res = "spawn_failed"]
        ELSE [t EXCEPT !.ctrl = h,
                       !.heap[h] = [NoCell EXCEPT !.mem = "alloc"],
                       !.proc[h] = [NoProc EXCEPT !.state = "open"],
                       !.res = "opened"]

(* ------------------------------ gnuplot_cmd --------------------------- *)

\* The command goes to the pipe and is recorded in s.out as sent.  fputs on a
\* stream that pclose has already closed is undefined too.
gnuplot_cmd(s, c) ==
    IF s.ctrl = NULL THEN Faulted(s)
    ELSE [Faulted(s) EXCEPT
              !.proc[s.ctrl].queue = Append(@, c.file),
              !.out = Append(@, c),
              !.fault = IF @ = "none" /\ s.proc[s.ctrl].state # "open"
                        THEN "closed_stream" ELSE @]

(* ---------------------------- gnuplot_setstyle ------------------------ *)

StyleOf_NoHistogram(plot_style) ==
    IF plot_style \in Styles \ {"histogram"} THEN plot_style ELSE "points"

\* The style stored for a requested style name.
StyleOf(plot_style) ==
    IF plot_style \in Styles THEN plot_style ELSE "points"

gnuplot_setstyle(s, plot_style) ==
    IF s.ctrl = NULL THEN Faulted(s)
    ELSE [Faulted(s) EXCEPT !.heap[s.ctrl].pstyle = StyleOf(plot_style)]

(* ---------------------------- gnuplot_resetplot ----------------------- *)

\* to_delete[0 .. ntmp-1]
Registered(c) ==
    SubSeq(c.to_delete, 1, c.ntmp)

\* remove() of every name in a list
RemoveAll(fl, names) ==
    [nm \in Names |->
        IF \E i \in 1..Len(names) : names[i] = nm THEN -1 ELSE fl[nm]]

gnuplot_resetplot_KeepsCount(s) ==
    IF s.ctrl = NULL THEN Faulted(s)
    ELSE [Faulted(s) EXCEPT
              !.files = RemoveAll(@, Registered(s.heap[s.ctrl])),
              !.heap[s.ctrl].ntmp = 0,
              !.heap[s.ctrl].to_delete = <<>>]

gnuplot_resetplot_WaitsForEngine(s) ==
    IF s.ctrl = NULL THEN Faulted(s)
    ELSE [Faulted(s) EXCEPT
              !.proc[s.ctrl].queue = <<>>,
              !.files = RemoveAll(@, Registered(s.heap[s.ctrl])),
              !.heap[s.ctrl].ntmp = 0,
              !.heap[s.ctrl].to_delete = <<>>,
              !.heap[s.ctrl].nplots = 0]

\* The slots of to_delete beyond ntmp are never read: the model drops them.
gnuplot_resetplot(s) ==
    IF s.ctrl = NULL THEN Faulted(s)
    ELSE [Faulted(s) EXCEPT
              !.files = RemoveAll(@, Registered(s.heap[s.ctrl])),
              !.heap[s.ctrl].ntmp = 0,
              !.heap[s.ctrl].to_delete = <<>>,
              !.heap[s.ctrl].nplots = 0]

(* ------------------------------ gnuplot_close ------------------------- *)

\* pret is what pclose returns.  pclose waits for the subprocess, so after a
\* successful pclose the engine has read everything that was in the pipe.
gnuplot_close(s, pret) ==
    IF s.ctrl = NULL THEN Faulted(s)
    ELSE LET h == s.ctrl
             t == Faulted(s)
             u == [t EXCEPT
                     !.proc[h].state = "closed",
                     !.proc[h].pcloses = @ + 1,
                     !.proc[h].queue = IF pret = 0 THEN <<>> ELSE @,
                     !.fault = IF @ = "none" /\ s.proc[h].state # "open"
                               THEN "double_pclose" ELSE @]
         IN  IF pret = -1 THEN [u EXCEPT !.res = "pclose_failed"]
             ELSE [u EXCEPT
                     !.files = RemoveAll(@, Registered(s.heap[h])),
                     !.heap[h].mem = "freed",
                     !.fault = IF @ = "none" /\ s.heap[h].mem # "alloc"
                               THEN "double_free" ELSE @,
                     !.res = "closed"]

(* --------------------------- labels and title ------------------------- *)

SetCmd(what, text) ==
    [verb |-> "set", kind |-> what, file |-> 0, title |-> text, style |-> ""]

gnuplot_set_title(s, title) ==
    gnuplot_cmd(s, SetCmd("title", title))

gnuplot_set_xlabel(s, label) ==
    gnuplot_cmd(s, SetCmd("xlabel", label))

gnuplot_set_ylabel(s, label) ==
    gnuplot_cmd(s, SetCmd("ylabel", label))

(* ------------------------- plot-request builders ---------------------- *)

PlotVerb_ByFiles(c) ==
    IF c.ntmp > 0 THEN "replot" ELSE "plot"

\* if (nplots > 0) "replot" else "plot"
PlotVerb(c) ==
    IF c.nplots > 0 THEN "replot" ELSE "plot"

TmpFull_OffByOne(c) ==
    c.ntmp = GP_MAX_TMP_FILES

\* if (ntmp == GP_MAX_TMP_FILES - 1)
TmpFull(c) ==
    c.ntmp = GP_MAX_TMP_FILES - 1

\* What mkstemp can return: 0 stands for its failure (-1); otherwise a name
\* no file has (the lowest one: the names differ in nothing else).
MkChoices(s) ==
    LET free == {nm \in Names : s.files[nm] = -1}
    IN  {0} \cup (IF s.fds < MaxFds
                  THEN {nm \in free : \A other \in free : nm <= other} ELSE {})

\* plot "name" [title "title"] with pstyle
DataCmd(c, name, title) ==
    [verb |-> PlotVerb(c), kind |-> "file", file |-> name,
     title |-> IF title = NullStr THEN "" ELSE title, style |-> c.pstyle]

gnuplot_plot_x_NoCount(s, dNull, n, title, mk, w) ==
    IF s.ctrl = NULL \/ dNull \/ n < 1 THEN [s EXCEPT !.res = "refused"]
    ELSE LET h == s.ctrl
             c == s.heap[h]
             t == Faulted(s)
         IN  IF TmpFull(c) THEN [t EXCEPT !.res = "full"]
             ELSE IF mk = 0 THEN [t EXCEPT !.res = "mkstemp_failed"]
             ELSE LET u == [t EXCEPT
                              !.heap[h].to_delete = Append(Registered(c), mk),
                              !.heap[h].ntmp = @ + 1,
                              !.files[mk] = w,
                              !.mk = mk, !.w = w]
                      v == gnuplot_cmd(u, DataCmd(c, mk, title))
                  IN  [v EXCEPT !.res = "sent"]

\* mk is the name mkstemp returns, w the number of lines the write calls
\* put in the file (their results are not looked at).
gnuplot_plot_x(s, dNull, n, title, mk, w) ==
    IF s.ctrl = NULL \/ dNull \/ n < 1 THEN [s EXCEPT !.res = "refused"]
    ELSE LET h == s.ctrl
             c == s.heap[h]
             t == Faulted(s)
         IN  IF TmpFull(c) THEN [t EXCEPT !.res = "full"]
             ELSE IF mk = 0 THEN [t EXCEPT !.res = "mkstemp_failed"]
             ELSE LET u == [t EXCEPT
                              !.heap[h].to_delete = Append(Registered(c), mk),
                              !.heap[h].ntmp = @ + 1,
                              !.files[mk] = w,
                              !.mk = mk, !.w = w]
                      v == gnuplot_cmd(u, DataCmd(c, mk, title))
                  IN  [v EXCEPT !.heap[h].nplots = @ + 1, !.res = "sent"]

gnuplot_plot_xy_CountsAbandoned(s, xNull, yNull, n, title, mk, w) ==
    IF s.ctrl = NULL \/ xNull \/ yNull \/ n < 1
    THEN [s EXCEPT !.res = "refused"]
    ELSE LET h == s.ctrl
             c == s.heap[h]
             t == Faulted(s)
         IN  IF TmpFull(c) THEN [t EXCEPT !.res = "full"]
             ELSE IF mk = 0 THEN [t EXCEPT !.res = "mkstemp_failed"]
             ELSE LET u == [t EXCEPT
                              !.heap[h].to_delete = Append(Registered(c), mk),
                              !.heap[h].ntmp = @ + 1,
                              !.heap[h].nplots = @ + 1,
                              !.files[mk] = w,
                              !.mk = mk, !.w = w]
                      v == gnuplot_cmd(u, DataCmd(c, mk, title))
                  IN  IF w < n
                      THEN [u EXCEPT !.fds = @ + 1, !.res = "short_write"]
                      ELSE [v EXCEPT !.res = "sent"]

gnuplot_plot_xy_DropsAbandoned(s, xNull, yNull, n, title, mk, w) ==
    IF s.ctrl = NULL \/ xNull \/ yNull \/ n < 1
    THEN [s EXCEPT !.res = "refused"]
    ELSE LET h == s.ctrl
             c == s.heap[h]
             t == Faulted(s)
         IN  IF TmpFull(c) THEN [t EXCEPT !.res = "full"]
             ELSE IF mk = 0 THEN [t EXCEPT !.res = "mkstemp_failed"]
             ELSE LET u == [t EXCEPT
                              !.heap[h].to_delete = Append(Registered(c), mk),
                              !.heap[h].ntmp = @ + 1,
                              !.files[mk] = w,
                              !.mk = mk, !.w = w]
                      v == gnuplot_cmd(u, DataCmd(c, mk, title))
                  IN  IF w < n
                      THEN [t EXCEPT !.files[mk] = w, !.mk = mk, !.w = w,
                                     !.fds = @ + 1, !.res = "short_write"]
                      ELSE [v EXCEPT !.heap[h].nplots = @ + 1, !.res = "sent"]

\* w is the number of write calls that wrote their whole line; with w < n
\* the next one is short and the function returns with the file still open.
gnuplot_plot_xy(s, xNull, yNull, n, title, mk, w) ==
    IF s.ctrl = NULL \/ xNull \/ yNull \/ n < 1
    THEN [s EXCEPT !.res = "refused"]
    ELSE LET h == s.ctrl
             c == s.heap[h]
             t == Faulted(s)
         IN  IF TmpFull(c) THEN [t EXCEPT !.res = "full"]
             ELSE IF mk = 0 THEN [t EXCEPT !.res = "mkstemp_failed"]
             ELSE LET u == [t EXCEPT
                              !.heap[h].to_delete = Append(Registered(c), mk),
                              !.heap[h].ntmp = @ + 1,
                              !.files[mk] = w,
                              !.mk = mk, !.w = w]
                      v == gnuplot_cmd(u, DataCmd(c, mk, title))
                  IN  IF w < n
                      THEN [u EXCEPT !.fds = @ + 1, !.res = "short_write"]
                      ELSE [v EXCEPT !.heap[h].nplots = @ + 1, !.res = "sent"]

\* The title is printed from the argument, not from the stitle buffer that
\* holds the default: printf("%s", NULL) is undefined, and prints "(null)"
\* where it does not crash.
gnuplot_plot_slope(s, title) ==
    IF s.ctrl = NULL THEN Faulted(s)
    ELSE LET h == s.ctrl
             c == s.heap[h]
             t == IF title = NullStr /\ Deref(s) = "none"
                  THEN [s EXCEPT !.fault = "printf_null"] ELSE Faulted(s)
             v == gnuplot_cmd(t,
                      [verb |-> PlotVerb(c), kind |-> "slope", file |-> 0,
                       title |-> IF title = NullStr THEN "(null)" ELSE title,
                       style |-> c.pstyle])
         IN  [v EXCEPT !.heap[h].nplots = @ + 1, !.res = "sent"]

gnuplot_plot_equation(s, title) ==
    IF s.ctrl = NULL THEN Faulted(s)
    ELSE LET h == s.ctrl
             c == s.heap[h]
             v == gnuplot_cmd(Faulted(s),
                      [verb |-> PlotVerb(c), kind |-> "equation", file |-> 0,
                       title |-> IF title = NullStr THEN "no title" ELSE title,
                       style |-> c.pstyle])
         IN  [v EXCEPT !.heap[h].nplots = @ + 1, !.res = "sent"]

(* ------------------------------- histogram ---------------------------- *)

RECURSIVE BinLoop_ClosedIntervals(_, _, _, _, _, _)
BinLoop_ClosedIntervals(bin, r, ordinate, nbins, overflow, i) ==
    IF i >= nbins - 1 THEN bin
    ELSE LET k == IF overflow
                  THEN IF r <= ordinate[1] THEN 1
                       ELSE IF r >= ordinate[nbins] THEN nbins
                       ELSE IF r >= ordinate[i + 1] /\ r < ordinate[i + 2]
                            THEN i + 1 ELSE 0
                  ELSE IF r >= ordinate[i + 1] /\ r <= ordinate[i + 2]
                       THEN i + 1 ELSE 0
         IN  BinLoop_ClosedIntervals(
                 IF k = 0 THEN bin ELSE [bin EXCEPT ![k] = @ + 1],
                 r, ordinate, nbins, overflow, i + 1)

\* One pass of the loop over i for sample r (arrays are 1-based here).  The
\* loop is entered only when j < nbins, so nbins >= 1 and the unsigned
\* nbins-1 does not wrap.
RECURSIVE BinLoop(_, _, _, _, _, _)
BinLoop(bin, r, ordinate, nbins, overflow, i) ==
    IF i >= nbins - 1 THEN bin
    ELSE LET k == IF overflow
                  THEN IF r <= ordinate[1] THEN 1
                       ELSE IF r >= ordinate[nbins] THEN nbins
                       ELSE IF r >= ordinate[i + 1] /\ r < ordinate[i + 2]
                            THEN i + 1 ELSE 0
                  ELSE IF r >= ordinate[i + 1] /\ r < ordinate[i + 2]
                       THEN i + 1 ELSE 0
         IN  BinLoop(IF k = 0 THEN bin ELSE [bin EXCEPT ![k] = @ + 1],
                     r, ordinate, nbins, overflow, i + 1)

\* while ( j<nbins && rawdata[j] )
RECURSIVE BinAll(_, _, _, _, _, _)
BinAll(bin, rawdata, ordinate, nbins, overflow, j) ==
    IF j < nbins /\ rawdata[j + 1] # 0
    THEN BinAll(BinLoop(bin, rawdata[j + 1], ordinate, nbins, overflow, 0),
                rawdata, ordinate, nbins, overflow, j + 1)
    ELSE bin

\* rawdata is a record: null, or the array val.
gnuplot_plot_histogram(s, ordinate, rawdata, nbins, overflow, title, mk, w) ==
    IF rawdata.null THEN [s EXCEPT !.res = "refused"]
    ELSE LET bin == BinAll([i \in 1..nbins |-> 0], rawdata.val, ordinate,
                           nbins, overflow, 0)
             t == gnuplot_setstyle(s, "boxes")
         IN  [gnuplot_plot_xy(t, FALSE, FALSE, nbins, title, mk, w)
                 EXCEPT !.bin = bin]

(* --------------------------- the one-shot helper ---------------------- *)

gnuplot_plot_once(s, title, style, label_x, label_y, xNull, yNull, n, h, popenOk, mk, w, pret) ==
    IF xNull \/ n < 1 THEN [s EXCEPT !.res = "refused"]
    ELSE LET a == gnuplot_init(s, h, popenOk)
             b == gnuplot_setstyle(a, IF style # NullStr THEN style ELSE "lines")
             c == gnuplot_set_xlabel(b, IF label_x # NullStr THEN label_x ELSE "X")
             d == gnuplot_set_ylabel(c, IF label_y # NullStr THEN label_y ELSE "Y")
             e == IF yNull THEN gnuplot_plot_x(d, xNull, n, title, mk, w)
                  ELSE gnuplot_plot_xy(d, xNull, yNull, n, title, mk, w)
         IN  IF a.ctrl = NULL THEN a ELSE gnuplot_close(e, pret)

(* ----------------------- constructor and destructor ------------------- *)

\* GnuPlot::GnuPlot()
GnuPlot(s, h, popenOk) ==
    gnuplot_setstyle(gnuplot_init(s, h, popenOk), "points")

\* GnuPlot::~GnuPlot()
GnuPlot_dtor(s, pret) ==
    gnuplot_close(s, pret)

(* ------------------------------ environment --------------------------- *)

\* The environments of the session specification: gnuplot absent, gnuplot
\* in a directory of PATH with DISPLAY unset, gnuplot in the current
\* directory with PATH unset.
EnvInputs ==
    {[display |-> TRUE, path |-> [set |-> FALSE, val |-> <<>>], fs |-> {}],
     [display |-> FALSE, path |-> [set |-> TRUE, val |-> <<"b", ":", "a">>],
      fs |-> {<<"a", "/", "gnuplot">>}],
     [display |-> TRUE, path |-> [set |-> FALSE, val |-> <<>>],
      fs |-> {<<".", "/", "gnuplot">>}]}

(* -------------------------------- actions ----------------------------- *)

\* No arrays prepared: the requests take their data from the call.
NoData ==
    [ordinate |-> <<>>, rawdata |-> [null |-> TRUE, val |-> <<>>]]

NoLast ==
    [op |-> "none", in |-> <<>>, out |-> <<>>, res |-> "ok", fault |-> "none",
     mk |-> 0, w |-> 0, bin |-> <<>>, loc |-> <<>>, crashed |-> FALSE]

Init ==
    /\ obj = "unborn"
    /\ plot_ctrl = NULL
    /\ heap = [h \in Handles |-> NoCell]
    /\ proc = [h \in Handles |-> NoProc]
    /\ files = [nm \in Names |-> -1]
    /\ fds = 0
    /\ \E e \in EnvInputs :
           DISPLAY = e.display /\ PATH = e.path /\ fsExec = e.fs
    /\ static_buf = <<>>
    /\ data = NoData
    /\ last = NoLast
    /\ sentSince = 0
    /\ located = {}
    /\ creator = [nm \in Names |-> 0]

\* An operation that ran into undefined behaviour either crashes the process
\* (its memory and descriptors are gone, its files and subprocesses stay) or
\* completes as if the memory it touched were still what it was; what the
\* object does after that is not followed.
Outcomes(s) ==
    IF s.fault = "none" THEN {"ok"} ELSE {"crash", "proceed"}

\* The plot and replot commands among the commands sent.
PlotCmds(out) ==
    Cardinality({i \in 1..Len(out) : out[i].verb \in {"plot", "replot"}})

Commit(op, in, s, newObj) ==
    \E outcome \in Outcomes(s) :
        /\ last' = [op |-> op, in |-> in,
                    out |-> IF outcome = "crash" THEN <<>> ELSE s.out,
                    res |-> s.res,
                    fault |-> s.fault, mk |-> s.mk, w |-> s.w, bin |-> s.bin,
                    loc |-> s.loc, crashed |-> outcome = "crash"]
        /\ obj' = IF outcome = "crash" THEN "crashed"
                  ELSE IF outcome = "proceed" THEN "undefined" ELSE newObj
        /\ plot_ctrl' = IF outcome = "crash" THEN NULL ELSE s.ctrl
        /\ heap' = IF outcome = "crash" THEN [h \in Handles |-> NoCell]
                   ELSE s.heap
        /\ proc' = IF outcome = "crash" THEN proc ELSE s.proc
        /\ files' = IF outcome = "crash" THEN files ELSE s.files
        /\ fds' = IF outcome = "crash" THEN 0 ELSE s.fds
        /\ sentSince' =
               IF outcome = "crash" THEN 0
               ELSE IF op = "reset" THEN 0
               ELSE IF op \in {"GnuPlot", "plot_once"} /\ s.res # "refused"
                    THEN PlotCmds(s.out)
               ELSE sentSince + PlotCmds(s.out)
        /\ static_buf' = IF outcome = "crash" THEN <<>> ELSE s.buf
        /\ located' = located \cup {s.loc[i] : i \in 1..Len(s.loc)}
        /\ creator' = [nm \in Names |->
                          IF files'[nm] = -1 THEN 0
                          ELSE IF files[nm] = -1 THEN s.ctrl
                          ELSE creator[nm]]
        /\ UNCHANGED <<DISPLAY, PATH, fsExec, data>>

\* malloc hands out the lowest block not in use.
NextHandle ==
    CHOOSE h \in FreeHandles(Cur) : \A g \in FreeHandles(Cur) : h <= g

\* Fewer than MaxPipe commands wait in the pipe of the session.
PipeRoom ==
    IF plot_ctrl = NULL THEN TRUE
    ELSE Len(proc[plot_ctrl].queue) < MaxPipe

PlotRoom ==
    IF plot_ctrl = NULL THEN TRUE ELSE heap[plot_ctrl].nplots < MaxPlots

OnceRoom ==
    IF plot_ctrl = NULL THEN TRUE
    ELSE heap[plot_ctrl].nplots + heap[plot_ctrl].ntmp <= MaxBeforeOnce

\* The lines a write loop over n samples can leave in the file.
Written(mk, n) ==
    IF mk = 0 \/ n < 1 THEN {0} ELSE 0..n

\* The arguments of a series request: the data pointers absent or not, the
\* sample count, the title.  plot_x has no y: it does not look at yNull.
SeriesInputs ==
    {[xNull |-> TRUE, yNull |-> FALSE, n |-> MaxN, title |-> "t"],
     [xNull |-> FALSE, yNull |-> TRUE, n |-> MaxN, title |-> "t"],
     [xNull |-> FALSE, yNull |-> FALSE, n |-> 0, title |-> "t"]}
    \cup [xNull : {FALSE}, yNull : {FALSE}, n : 1..MaxN, title : TitleInputs]

Construct ==
    /\ obj = "unborn"
    /\ \E popenOk \in BOOLEAN :
           Commit("GnuPlot", [popenOk |-> popenOk],
                  GnuPlot(Cur, NextHandle, popenOk), "live")

Destroy ==
    /\ obj = "live"
    /\ \E pret \in {0, -1} :
           Commit("~GnuPlot", [pret |-> pret], GnuPlot_dtor(Cur, pret), "dead")

Close ==
    /\ obj = "live"
    /\ \E pret \in {0, -1} :
           Commit("close", [pret |-> pret], gnuplot_close(Cur, pret), "live")

SetStyle ==
    /\ obj = "live"
    /\ \E name \in StyleInputs :
           Commit("setstyle", [name |-> name], gnuplot_setstyle(Cur, name), "live")

SetTitle ==
    /\ obj = "live"
    /\ PipeRoom
    /\ Commit("set_title", [text |-> "T"], gnuplot_set_title(Cur, "T"), "live")

SetXLabel ==
    /\ obj = "live"
    /\ PipeRoom
    /\ Commit("set_xlabel", [text |-> "x"], gnuplot_set_xlabel(Cur, "x"), "live")

SetYLabel ==
    /\ obj = "live"
    /\ PipeRoom
    /\ Commit("set_ylabel", [text |-> "y"], gnuplot_set_ylabel(Cur, "y"), "live")

Reset ==
    /\ obj = "live"
    /\ Commit("reset", <<>>, gnuplot_resetplot(Cur), "live")

PlotX ==
    /\ obj = "live"
    /\ PipeRoom
    /\ PlotRoom
    /\ \E in \in SeriesInputs, mk \in MkChoices(Cur) :
         \E w \in Written(mk, in.n) :
           Commit("plot_x", in,
                  gnuplot_plot_x(Cur, in.xNull, in.n, in.title, mk, w), "live")

PlotXY ==
    /\ obj = "live"
    /\ PipeRoom
    /\ PlotRoom
    /\ \E in \in SeriesInputs, mk \in MkChoices(Cur) :
         \E w \in Written(mk, in.n) :
           Commit("plot_xy", in,
                  gnuplot_plot_xy(Cur, in.xNull, in.yNull, in.n, in.title,
                                  mk, w), "live")

PlotSlope ==
    /\ obj = "live"
    /\ PipeRoom
    /\ PlotRoom
    /\ \E title \in TitleInputs :
           Commit("plot_slope", [title |-> title],
                  gnuplot_plot_slope(Cur, title), "live")

PlotEquation ==
    /\ obj = "live"
    /\ PipeRoom
    /\ PlotRoom
    /\ \E title \in TitleInputs :
           Commit("plot_equation", [title |-> title],
                  gnuplot_plot_equation(Cur, title), "live")

\* The bin edges and samples the callers pass in; a sample array ends with
\* the value 0.
HistInputs ==
    {[ordinate |-> <<>>, rawdata |-> [null |-> FALSE, val |-> <<0>>]],
     [ordinate |-> <<0, 10>>, rawdata |-> [null |-> TRUE, val |-> <<>>]],
     [ordinate |-> <<0, 10>>, rawdata |-> [null |-> FALSE, val |-> <<5, 0>>]]}

PlotHistogram ==
    /\ obj = "live"
    /\ PipeRoom
    /\ PlotRoom
    /\ \E hi \in HistInputs, overflow \in BOOLEAN, mk \in MkChoices(Cur) :
         \E w \in Written(mk, Len(hi.ordinate)) :
           Commit("plot_histogram", [hi |-> hi, overflow |-> overflow],
                  gnuplot_plot_histogram(Cur, hi.ordinate, hi.rawdata,
                      Len(hi.ordinate), overflow, "t", mk, w), "live")

\* The arguments of the one-shot helper: no x; x alone with no style and no
\* title; x and y with a style and a title.
OnceInputs ==
    {[xNull |-> TRUE, yNull |-> TRUE, n |-> MaxN, style |-> NullStr,
      title |-> NullStr],
     [xNull |-> FALSE, yNull |-> TRUE, n |-> MaxN, style |-> NullStr,
      title |-> NullStr],
     [xNull |-> FALSE, yNull |-> FALSE, n |-> MaxN, style |-> "histogram",
      title |-> "t"]}

PlotOnce ==
    /\ obj = "live"
    /\ FreeHandles(Cur) # {}
    /\ OnceRoom
    /\ \E in \in OnceInputs, popenOk \in BOOLEAN, mk \in MkChoices(Cur),
          pret \in {0, -1} :
         \E w \in Written(mk, in.n) :
           Commit("plot_once", [in |-> in, popenOk |-> popenOk, pret |-> pret],
                  gnuplot_plot_once(Cur, in.title, in.style, NullStr, "y",
                      in.xNull, in.yNull, in.n, NextHandle, popenOk, mk, w,
                      pret),
                  "live")

\* The gnuplot subprocess of session h reads the next command of its pipe.
Engine ==
    \E h \in Handles :
        /\ proc[h].queue # <<>>
        /\ LET f == Head(proc[h].queue)
           IN  last' = [NoLast EXCEPT
                          !.op = "engine",
                          !.in = [h |-> h, file |-> f],
                          !.res = IF f # 0 /\ files[f] = -1
                                  THEN "file_missing" ELSE "rendered"]
        /\ proc' = [proc EXCEPT ![h].queue = Tail(@)]
        /\ UNCHANGED <<obj, plot_ctrl, heap, files, fds, DISPLAY, PATH, fsExec,
                       static_buf, data, sentSince, located, creator>>

(* ------------------- histograms of prepared arrays -------------------- *)

\* All sequences over S of length at most n.
SeqsUpTo(S, n) ==
    UNION {[1..k -> S] : k \in 0..n}

\* The values the bin edges are taken from.
EdgeVals ==
    {2 * k : k \in 1..MaxBins}

\* The arrays a caller may have prepared: any edges, and either no sample
\* array or samples followed by the terminating 0.
DataInputs ==
    {[ordinate |-> e, rawdata |-> [null |-> FALSE, val |-> r \o <<0>>]] :
        e \in SeqsUpTo(EdgeVals, MaxBins),
        r \in SeqsUpTo(1..MaxSample, MaxSamples)}
    \cup {[ordinate |-> e, rawdata |-> [null |-> TRUE, val |-> <<>>]] :
            e \in {<<>>, <<2, 4>>}}

\* A process that has prepared its arrays and not yet constructed the
\* object; gnuplot is in the current directory.
HistInit ==
    /\ obj = "unborn"
    /\ plot_ctrl = NULL
    /\ heap = [h \in Handles |-> NoCell]
    /\ proc = [h \in Handles |-> NoProc]
    /\ files = [nm \in Names |-> -1]
    /\ fds = 0
    /\ DISPLAY = TRUE
    /\ PATH = [set |-> FALSE, val |-> <<>>]
    /\ fsExec = {<<".", "/", "gnuplot">>}
    /\ static_buf = <<>>
    /\ data \in DataInputs
    /\ last = NoLast
    /\ sentSince = 0
    /\ located = {}
    /\ creator = [nm \in Names |-> 0]

\* gnuplot_plot_histogram on the prepared arrays.
PlotHistogramData ==
    /\ obj = "live"
    /\ PipeRoom
    /\ PlotRoom
    /\ \E overflow \in BOOLEAN, mk \in MkChoices(Cur) :
         \E w \in Written(mk, Len(data.ordinate)) :
           Commit("plot_histogram", [hi |-> data, overflow |-> overflow],
                  gnuplot_plot_histogram(Cur, data.ordinate, data.rawdata,
                      Len(data.ordinate), overflow, "t", mk, w), "live")

HistNext ==
    \/ Construct
    \/ PlotHistogramData
    \/ Engine

HistSpec ==
    HistInit /\ [][HistNext]_vars

Next ==
    \/ Construct
    \/ Destroy
    \/ Close
    \/ SetStyle
    \/ SetTitle
    \/ SetXLabel
    \/ SetYLabel
    \/ Reset
    \/ PlotX
    \/ PlotXY
    \/ PlotSlope
    \/ PlotEquation
    \/ PlotHistogram
    \/ PlotOnce
    \/ Engine

Spec ==
    Init /\ [][Next]_vars

(* ------------------------ calls of the locator ------------------------ *)

\* The program names the callers look for.
ProgNames ==
    {"gnuplot", "ls", "csh"}

\* The characters of a PATH value.
PathChars ==
    {"a", "b", ":"}

\* The executables a filesystem may hold.
ExecUniverse ==
    {<<".", "/", "gnuplot">>, <<"a", "/", "gnuplot">>,
     <<".", "/", "ls">>, <<"a", "/", "ls">>, <<"b", "/", "ls">>,
     <<"a", "b", "/", "ls">>, <<"b", "/", "csh">>}

\* A process in any environment: PATH unset or any string of at most
\* MaxPath characters, any set of executables.
LocInit ==
    /\ obj = "unborn"
    /\ plot_ctrl = NULL
    /\ heap = [h \in Handles |-> NoCell]
    /\ proc = [h \in Handles |-> NoProc]
    /\ files = [nm \in Names |-> -1]
    /\ fds = 0
    /\ DISPLAY = TRUE
    /\ PATH \in {[set |-> FALSE, val |-> <<>>]}
                \cup {[set |-> TRUE, val |-> v] :
                         v \in SeqsUpTo(PathChars, MaxPath)}
    /\ fsExec \in SUBSET ExecUniverse
    /\ static_buf = <<>>
    /\ data = NoData
    /\ last = NoLast
    /\ sentSince = 0
    /\ located = {}
    /\ creator = [nm \in Names |-> 0]

\* g.gnuplot_get_program_path(pname) called on the object.
Locate ==
    /\ obj = "live"
    /\ \E pname \in ProgNames :
           Commit("locate", [pname |-> pname],
                  Located(Cur, pname,
                          gnuplot_get_program_path(pname, PATH, fsExec)),
                  "live")

LocNext ==
    \/ Construct
    \/ Locate

LocSpec ==
    LocInit /\ [][LocNext]_vars

(* --------------- an object that is never closed explicitly ------------ *)

\* Construct, plot, reset, one-shot and destroy: every operation but an
\* explicit close and the settings.
OnceNext ==
    \/ Construct
    \/ Destroy
    \/ Reset
    \/ PlotX
    \/ PlotXY
    \/ PlotSlope
    \/ PlotEquation
    \/ PlotHistogram
    \/ PlotOnce
    \/ Engine

OnceSpec ==
    Init /\ [][OnceNext]_vars

(* -------------------------------- claims ------------------------------ *)

\* The object holds a session that is open: its structure is allocated and
\* its pipe has not been closed.
SessionOpen ==
    /\ obj = "live"
    /\ plot_ctrl # NULL
    /\ heap[plot_ctrl].mem = "alloc"
    /\ proc[plot_ctrl].state = "open"

\* The session structure of the object.
Ses ==
    heap[plot_ctrl]

StagingOps ==
    {"plot_x", "plot_xy", "plot_histogram"}

\* C1: when pclose reports failure, close (explicit or from the destructor)
\* has still deleted every staged file of the session and released the
\* session structure.
C1_CloseReclaimsAfterPcloseFailure ==
    (/\ last.op \in {"close", "~GnuPlot"}
     /\ last.res = "pclose_failed"
     /\ last.fault = "none")
    => /\ heap[plot_ctrl].mem = "freed"
       /\ \A i \in 1..Len(Registered(Ses)) : files[Registered(Ses)[i]] = -1

\* C2: an open session always holds fewer than GP_MAX_TMP_FILES staged
\* files, and a staging request (series by index, series by coordinates,
\* histogram) made with GP_MAX_TMP_FILES - 1 files registered creates no
\* file, leaves the registry and the plot counter as they were and sends no
\* command.
C2_RegistryBelowCapacity ==
    /\ [](SessionOpen => Ses.ntmp < GP_MAX_TMP_FILES)
    /\ [][(/\ SessionOpen
           /\ Ses.ntmp = GP_MAX_TMP_FILES - 1
           /\ last'.op \in StagingOps)
          => /\ files' = files
             /\ heap'[plot_ctrl].to_delete = Ses.to_delete
             /\ heap'[plot_ctrl].ntmp = Ses.ntmp
             /\ heap'[plot_ctrl].nplots = Ses.nplots
             /\ last'.out = <<>>]_vars

\* C2 witness: a staging request with valid data was refused for capacity.
C2_Witness ==
    /\ SessionOpen
    /\ last.op \in StagingOps
    /\ last.res = "full"
    /\ Ses.ntmp = GP_MAX_TMP_FILES - 1

BuilderOps ==
    {"plot_x", "plot_xy", "plot_slope", "plot_equation"}

\* C3: a command sent by a plot-request builder on an open session uses the
\* verb plot exactly when the plot counter was 0 at the call, and replot
\* otherwise.
C3_VerbFollowsOverlayCount ==
    [][(/\ SessionOpen
        /\ last'.op \in BuilderOps
        /\ last'.out # <<>>)
       => /\ Len(last'.out) = 1
          /\ last'.out[1].verb = (IF Ses.nplots = 0 THEN "plot" ELSE "replot")]_vars

\* C3 witness: a data plot was sent as an overlay.
C3_Witness ==
    /\ SessionOpen
    /\ last.op \in {"plot_x", "plot_xy"}
    /\ last.out # <<>>
    /\ last.out[1].verb = "replot"
    /\ last.out[1].kind = "file"

\* C4: reset on an open session deletes every staged file and no other,
\* empties the registry, zeroes the plot counter, and leaves the pipe, the
\* style, the handle and the open descriptors as they were; it sends nothing.
C4_ResetFrame ==
    [][(SessionOpen /\ last'.op = "reset")
       => /\ \A nm \in Names :
                files'[nm] = IF \E i \in 1..Ses.ntmp : Ses.to_delete[i] = nm
                             THEN -1 ELSE files[nm]
          /\ heap'[plot_ctrl].ntmp = 0
          /\ heap'[plot_ctrl].to_delete = <<>>
          /\ heap'[plot_ctrl].nplots = 0
          /\ heap'[plot_ctrl].pstyle = Ses.pstyle
          /\ heap'[plot_ctrl].mem = "alloc"
          /\ plot_ctrl' = plot_ctrl
          /\ proc' = proc
          /\ fds' = fds
          /\ obj' = obj
          /\ last'.out = <<>>]_vars

\* C4 witness: after a reset the pipe still holds a command that names a
\* file the reset deleted, and the style is not the default one.
C4_Witness ==
    /\ SessionOpen
    /\ last.op = "reset"
    /\ Ses.pstyle # "points"
    /\ proc[plot_ctrl].queue # <<>>
    /\ Head(proc[plot_ctrl].queue) # 0
    /\ files[Head(proc[plot_ctrl].queue)] = -1

PlotOps ==
    {"plot_x", "plot_xy", "plot_slope", "plot_equation", "plot_histogram"}

\* C5: on an open session the first plot command sent after the session was
\* opened or reset uses the verb plot and every later one up to the next
\* reset uses replot, whatever requests were refused or abandoned in between
\* (sentSince counts the commands sent, not the requests made).
C5_FirstPlotThenReplot ==
    [][(SessionOpen /\ last'.op \in PlotOps)
       => /\ Len(last'.out) <= 1
          /\ last'.out # <<>> =>
                last'.out[1].verb = (IF sentSince = 0 THEN "plot" ELSE "replot")]_vars

\* C5 witness: the first command sent since the reset or the opening is a
\* plot, sent by a request that staged nothing, after an abandoned request
\* took a registry slot.
C5_Witness ==
    /\ SessionOpen
    /\ last.op \in PlotOps
    /\ last.out # <<>>
    /\ last.out[1].verb = "plot"
    /\ sentSince = 1
    /\ last.mk = 0
    /\ Ses.ntmp = 1

\* The style names of the claim.
C6_Enumeration ==
    {"lines", "points", "linespoints", "impulses", "dots", "steps",
     "histogram", "errorbars", "boxes", "boxerrorbars"}

C7_Staged ==
    /\ last'.mk # 0
    /\ files[last'.mk] = -1
    /\ files' = [files EXCEPT ![last'.mk] = last'.in.n]
    /\ heap'[plot_ctrl].to_delete = Append(Registered(Ses), last'.mk)
    /\ heap'[plot_ctrl].ntmp = Ses.ntmp + 1
    /\ Len(last'.out) = 1
    /\ last'.out[1].file = last'.mk
    /\ heap'[plot_ctrl].nplots = Ses.nplots + 1

\* The filesystem did what the call asked of it: mkstemp, when called,
\* created the file, and the writes, when made, were complete.
C7_FilesystemWorked ==
    /\ last'.res # "mkstemp_failed"
    /\ last'.mk # 0 => last'.w = last'.in.n

\* C7 as claimed: every series-by-index call with data of n >= 1 samples on
\* an open session (with a filesystem that works) stages one file of n
\* lines, sends one command and adds one to the plot counter.
C7_EveryValidCallStages ==
    [][(/\ SessionOpen
        /\ last'.op = "plot_x"
        /\ ~last'.in.xNull
        /\ last'.in.n >= 1
        /\ C7_FilesystemWorked)
       => C7_Staged]_vars

\* C7 amended: a series-by-index call with data of n >= 1 samples, on an
\* open session that holds fewer than GP_MAX_TMP_FILES - 1 staged files,
\* for which mkstemp creates the file and every write is complete, stages
\* one file of n lines, sends one command and adds one to the plot counter.
C7_ValidCallStagesWhenRoom ==
    [][(/\ SessionOpen
        /\ last'.op = "plot_x"
        /\ ~last'.in.xNull
        /\ last'.in.n >= 1
        /\ C7_FilesystemWorked
        /\ Ses.ntmp < GP_MAX_TMP_FILES - 1)
       => C7_Staged]_vars

\* C7 witness: a series-by-index call staged its file and was sent.
C7_Witness ==
    /\ SessionOpen
    /\ last.op = "plot_x"
    /\ last.res = "sent"
    /\ last.mk # 0
    /\ files[last.mk] = last.in.n
    /\ Ses.ntmp = 2

\* C8: a series-by-coordinates call that hits a short write sends nothing,
\* leaves the plot counter alone, keeps the partly written file registered,
\* and takes nothing from the session but that one registry slot: no
\* descriptor stays open.
C8_ShortWriteTakesOneSlotOnly ==
    [][(/\ SessionOpen
        /\ last'.op = "plot_xy"
        /\ last'.res = "short_write")
       => /\ last'.out = <<>>
          /\ heap'[plot_ctrl].nplots = Ses.nplots
          /\ heap'[plot_ctrl].to_delete = Append(Registered(Ses), last'.mk)
          /\ heap'[plot_ctrl].ntmp = Ses.ntmp + 1
          /\ files'[last'.mk] # -1
          /\ heap'[plot_ctrl].pstyle = Ses.pstyle
          /\ proc' = proc
          /\ fds' = fds]_vars

\* C9: when gnuplot is not found or cannot be started, the constructor and
\* the one-shot helper end with no session and have touched nothing through
\* the absent handle.
C9_FailedOpenTouchesNothing ==
    (/\ last.op \in {"GnuPlot", "plot_once"}
     /\ last.res \in {"not_found", "spawn_failed"})
    => last.fault = "none"

\* C10: the constructor opens a session exactly when gnuplot is located and
\* popen succeeds, whether DISPLAY is set or not, and the session it opens
\* has the style points, no plots and no staged files.
C10_OpenOutcome ==
    last.op = "GnuPlot"
    => /\ last.res = "opened"
            <=> (/\ gnuplot_get_program_path("gnuplot", PATH, fsExec) # <<>>
                 /\ last.in.popenOk)
       /\ last.res = "opened"
            => /\ SessionOpen
               /\ last.fault = "none"
               /\ Ses = [mem |-> "alloc", nplots |-> 0, ntmp |-> 0,
                         to_delete |-> <<>>, pstyle |-> "points"]
               /\ proc[plot_ctrl].queue = <<>>

\* C10 witness: a session was opened with DISPLAY unset.
C10_Witness ==
    /\ last.op = "GnuPlot"
    /\ last.res = "opened"
    /\ ~DISPLAY
    /\ SessionOpen

(* ------------------------ claims on the histogram --------------------- *)

\* The last operation was a histogram request that binned samples.
Binned ==
    /\ last.op = "plot_histogram"
    /\ ~last.in.hi.rawdata.null
    /\ ~last.crashed

\* Its edges, its bin count, and whether the edges ascend.
HEdges ==
    last.in.hi.ordinate

HBins ==
    Len(HEdges)

Ascending ==
    \A i \in 1..(HBins - 1) : HEdges[i] <= HEdges[i + 1]

\* The samples of the array that precede the first 0.
RECURSIVE BeforeSentinel(_)
BeforeSentinel(r) ==
    IF r = <<>> \/ Head(r) = 0 THEN <<>>
    ELSE <<Head(r)>> \o BeforeSentinel(Tail(r))

\* The samples the request processed: those among the first HBins entries.
Processed ==
    LET all == BeforeSentinel(last.in.hi.rawdata.val)
    IN  SubSeq(all, 1, IF Len(all) < HBins THEN Len(all) ELSE HBins)

\* The interval of the edges that contains v, 0 when there is none.
IntervalOf(v) ==
    IF \E i \in 1..(HBins - 1) : HEdges[i] <= v /\ v < HEdges[i + 1]
    THEN CHOOSE i \in 1..(HBins - 1) : HEdges[i] <= v /\ v < HEdges[i + 1]
    ELSE 0

\* The bin the clamping policy gives v.
ClampBin(v) ==
    IF v <= HEdges[1] THEN 1
    ELSE IF v >= HEdges[HBins] THEN HBins
    ELSE IntervalOf(v)

\* C11: under the clamping policy each processed sample adds one to exactly
\* one bin (bin 0 at or below the first edge, the last bin at or above the
\* last edge, else the bin of the interval that contains it), so the counts
\* are the numbers of processed samples per bin and sum to their number.
C11_ClampCountsEachSampleOnce ==
    (Binned /\ last.in.overflow /\ Ascending /\ HBins >= 1)
    => \A i \in 1..HBins :
           last.bin[i] =
               Cardinality({k \in 1..Len(Processed) :
                               ClampBin(Processed[k]) = i})

\* C12: under the strict policy, with ascending edges, the count of bin i is
\* the number of processed samples s with edges[i] <= s < edges[i+1]: each
\* sample inside [edges[0], edges[nbins-1]) adds one to that one bin (a
\* sample on an interior edge to the upper bin) and a sample outside adds
\* nothing.
C12_StrictCountsContainingInterval ==
    (Binned /\ ~last.in.overflow /\ Ascending /\ HBins >= 1)
    => /\ \A i \in 1..HBins :
              last.bin[i] =
                  Cardinality({k \in 1..Len(Processed) :
                                  IntervalOf(Processed[k]) = i})
       /\ \A k \in 1..Len(Processed) :
              IntervalOf(Processed[k]) # 0
              <=> (HEdges[1] <= Processed[k] /\ Processed[k] < HEdges[HBins])

\* C12 witness: with edges 2, 4, 6 a sample on the interior edge 4 went to
\* the upper bin and a sample below the first edge was dropped.
C12_Witness ==
    /\ Binned
    /\ ~last.in.overflow
    /\ HEdges = <<2, 4, 6>>
    /\ Processed = <<4, 1>>
    /\ last.bin = <<0, 1, 0>>

\* Every sample of the array that precedes the first 0.
AllSamples ==
    BeforeSentinel(last.in.hi.rawdata.val)

\* C13: binning counts every sample that precedes the first 0, also a
\* sample at an index >= nbins: under the strict policy with ascending
\* edges the count of bin i is the number of all those samples that lie in
\* interval i.
C13_CountsEverySampleBeforeSentinel ==
    (Binned /\ ~last.in.overflow /\ Ascending /\ HBins >= 1)
    => \A i \in 1..HBins :
           last.bin[i] =
               Cardinality({k \in 1..Len(AllSamples) :
                               IntervalOf(AllSamples[k]) = i})

\* C14: a histogram request with no bins or with no sample array, made on
\* an open session, sends no command, creates no file and leaves the
\* session structure (style, plot counter, registry) as it was.
C14_EmptyHistogramIsNoOp ==
    [][(/\ SessionOpen
        /\ last'.op = "plot_histogram"
        /\ (last'.in.hi.ordinate = <<>> \/ last'.in.hi.rawdata.null))
       => /\ last'.out = <<>>
          /\ files' = files
          /\ heap'[plot_ctrl].pstyle = Ses.pstyle
          /\ heap'[plot_ctrl].nplots = Ses.nplots
          /\ heap'[plot_ctrl].ntmp = Ses.ntmp
          /\ heap'[plot_ctrl].to_delete = Ses.to_delete]_vars

(* ------------------------ claims on the session ----------------------- *)

\* C15: a slope or equation request made without a title on an open session
\* sends one command whose title is "no title", stages no file (files and
\* registry unchanged) and adds one to the plot counter.
C15_DefaultTitle ==
    [][(/\ SessionOpen
        /\ last'.op \in {"plot_slope", "plot_equation"}
        /\ last'.in.title = NullStr)
       => /\ Len(last'.out) = 1
          /\ last'.out[1].title = "no title"
          /\ files' = files
          /\ heap'[plot_ctrl].ntmp = Ses.ntmp
          /\ heap'[plot_ctrl].to_delete = Ses.to_delete
          /\ heap'[plot_ctrl].nplots = Ses.nplots + 1]_vars

CloseOps ==
    {"close", "~GnuPlot"}

\* C16: a close that follows a close whose pclose failed ends with every
\* registered file removed and the session structure released, and no
\* close works on a structure or a pipe that an earlier close released.
C16_CloseIdempotent ==
    /\ [][(/\ last.op \in CloseOps
            /\ last.res = "pclose_failed"
            /\ last.fault = "none"
            /\ last'.op \in CloseOps)
           => /\ last'.fault = "none"
              /\ heap'[plot_ctrl].mem = "freed"
              /\ \A i \in 1..Len(Registered(Ses)) :
                     files'[Registered(Ses)[i]] = -1]_vars
    /\ [](last.op \in CloseOps => last.fault = "none")

\* Using a structure or a pipe after it was released.
ReleasedUse ==
    {"use_after_free", "double_free", "double_pclose", "closed_stream"}

\* C19: over construct, plot, reset, one-shot and destroy operations no
\* subprocess is closed twice, no operation works on a released structure
\* or pipe, and once the object is destroyed every subprocess that was
\* spawned has been closed: none is left abandoned.
C19_SubprocessClosedOnce ==
    /\ \A h \in Handles : proc[h].pcloses <= 1
    /\ last.fault \notin ReleasedUse
    /\ obj = "dead" => \A h \in Handles : proc[h].state # "open"

(* ------------------------ claims on the locator ----------------------- *)

\* The segments of a PATH value: the strings between its colons.
RECURSIVE Split(_)
Split(p) ==
    IF \E i \in 1..Len(p) : p[i] = ":"
    THEN LET c == CHOOSE i \in 1..Len(p) :
                      p[i] = ":" /\ \A k \in 1..(i - 1) : p[k] # ":"
         IN  <<SubSeq(p, 1, c - 1)>> \o Split(SubSeq(p, c + 1, Len(p)))
    ELSE <<p>>

\* The directories to check, in order: the current directory, then the
\* segments of PATH, an empty segment standing for the current directory.
CheckedDirs ==
    <<<<".">>>> \o
    (IF PATH.set
     THEN [i \in 1..Len(Split(PATH.val)) |->
              IF Split(PATH.val)[i] = <<>> THEN <<".">> ELSE Split(PATH.val)[i]]
     ELSE <<>>)

\* The first checked directory that holds an executable pname; <<>> when
\* none does.
FirstMatch(pname) ==
    LET hits == {i \in 1..Len(CheckedDirs) :
                    (CheckedDirs[i] \o <<"/", pname>>) \in fsExec}
    IN  IF hits = {} THEN <<>>
        ELSE CheckedDirs[CHOOSE i \in hits : \A k \in hits : i <= k]

\* C18: every call of the locator returns the first of the current
\* directory and the PATH segments, in order, that holds the name as an
\* executable, and NULL exactly when none of them does (an unset PATH
\* leaves the current directory alone to check).
C18_FirstMatchingDirectory ==
    \A i \in 1..Len(last.loc) :
        last.loc[i].res = FirstMatch(last.loc[i].pname)

\* C18 witness: ls was found in the second segment of PATH, b, the
\* current directory and the first segment not holding it.
C18_Witness ==
    /\ last.op = "locate"
    /\ PATH = [set |-> TRUE, val |-> <<"a", ":", "b">>]
    /\ last.loc = <<[pname |-> "ls", res |-> <<"b">>]>>
    /\ <<"a", "b", "/", "ls">> \in fsExec

Existing(h) ==
    {nm \in Names : files[nm] # -1 /\ creator[nm] = h}

\* The names in the registry of session structure c.
RegSet(c) ==
    {Registered(c)[i] : i \in 1..c.ntmp}

\* C20: while a session is open (the one the object points to, or one it
\* has lost track of), the files it has created and that still exist are
\* exactly the names in its registry, each once; and a file leaves the
\* filesystem only in a reset or in a close whose pclose succeeded.
C20_FilesAreTheRegistry ==
    /\ [](obj = "live"
           => \A h \in Handles :
                  (heap[h].mem = "alloc" /\ proc[h].state = "open")
                  => /\ Existing(h) = RegSet(heap[h])
                     /\ Cardinality(RegSet(heap[h])) = heap[h].ntmp)
    /\ [][\A nm \in Names :
             (files[nm] # -1 /\ files'[nm] = -1)
             => \/ last'.op = "reset"
                \/ last'.op \in CloseOps /\ last'.res = "closed"]_vars

\* C20 witness: a file whose data write failed is in the registry of the
\* open session, next to a file that was written in full.
C20_Witness ==
    /\ SessionOpen
    /\ last.op = "plot_xy"
    /\ last.res = "short_write"
    /\ Ses.ntmp = 2
    /\ Existing(plot_ctrl) = RegSet(Ses)
    /\ last.mk \in RegSet(Ses)

(* ----------------------- claims on the engine ------------------------- *)

\* C21: nothing orders the removal of a staged file after the engine has
\* read the command that names it: a reset of an open session removes
\* every registered file and leaves the commands still waiting in the pipe
\* where they are, so the engine can come to a plot command whose data
\* file is gone (the state C21_Witness).
C21_ResetDoesNotWaitForEngine ==
    [][(SessionOpen /\ last'.op = "reset" /\ ~last'.crashed)
       => /\ proc'[plot_ctrl].queue = proc[plot_ctrl].queue
          /\ \A i \in 1..Len(Registered(Ses)) :
                 files'[Registered(Ses)[i]] = -1]_vars

\* C21 witness: the engine of the open session has just read a plot
\* command whose data file does not exist any more; the session's counters
\* are zero again, so a reset removed the file after the command was sent.
C21_Witness ==
    /\ SessionOpen
    /\ last.op = "engine"
    /\ last.res = "file_missing"
    /\ last.in.h = plot_ctrl
    /\ last.in.file # 0
    /\ files[last.in.file] = -1
    /\ Ses.nplots = 0
    /\ Ses.ntmp = 0
====
